---- MODULE Spec2Model ----
(***************************************************************************)
(* Model of the cairn binary codec (Celeste map format): the primitive     *)
(* codec (varuint, length-prefixed strings, run-length strings), the value *)
(* codec, the lookup-table builder, the element-tree codec and the         *)
(* document codec.                                                         *)
(*                                                                         *)
(* Strings are sequences of Unicode code points; a byte stream is a        *)
(* sequence of 0..255.  A reader is a stream together with the number of   *)
(* bytes already consumed (pos).  A u32 is kept as two 16-bit limbs        *)
(* [hi, lo]: every integer of the model stays below 2^31.                  *)
(***************************************************************************)
EXTENDS Integers, Sequences, FiniteSets, TLC

VARIABLES pc, arg, build, enc, stream, dec

vars == <<pc, arg, build, enc, stream, dec>>

\* ------------------------------------------------------------------ widths
\* 2^7: payload bits of one varuint byte (0x7F + 1, the continuation bit 0x80)
Cont == 128
\* 2^8 and 2^16: the widths of the u8 and u16 fields
U8 == 256
U16 == 65536
\* u16::MAX
U16Max == 65535

\* the builds of the crate: overflow checks on (debug) or off (release)
Builds == {"debug", "release"}

\* ------------------------------------------------------------------ results
Ok(v, p) == [st |-> "ok", val |-> v, pos |-> p]
Err(k) == [st |-> "err", kind |-> k]
Panicked(m) == [st |-> "panic", msg |-> m]

NoCallResult == [st |-> "none"]

IsOk(r) == r.st = "ok"
IsErr(r) == r.st = "err"
IsPanic(r) == r.st = "panic"

\* ------------------------------------------------------------------ bytes
Min(a, b) == IF a < b THEN a ELSE b

Pow2(k) == 2 ^ k

Range(s) == {s[i] : i \in 1..Len(s)}

\* concatenation of f(lo) \o ... \o f(hi), by halving (the loops that only
\* append to the writer)
RECURSIVE ConcatMap(_, _, _)
ConcatMap(f(_), lo, hi) ==
    IF lo > hi THEN <<>>
    ELSE IF lo = hi THEN f(lo)
    ELSE LET mid == (lo + hi) \div 2
         IN ConcatMap(f, lo, mid) \o ConcatMap(f, mid + 1, hi)

\* a loop "for i in lo..=hi { state = step(state, i) }" that is left as soon
\* as state.stop holds (a return or a panic inside the body), by halving
RECURSIVE Iterate(_, _, _, _)
Iterate(step(_, _), state, lo, hi) ==
    IF lo > hi THEN state
    ELSE IF lo = hi THEN step(state, lo)
    ELSE LET mid == (lo + hi) \div 2
             left == Iterate(step, state, lo, mid)
         IN IF left.stop THEN left ELSE Iterate(step, left, mid + 1, hi)

\* u16::to_le_bytes of (n as u16)
LE16(n) == <<(n % U16) % U8, (n % U16) \div U8>>

\* u16::from_le_bytes
FromLE16(b0, b1) == b0 + b1 * U8

\* Read::read_exact of n bytes at pos: the bytes, or UnexpectedEof
ReadExact(bytes, pos, n) ==
    IF n > Len(bytes) - pos THEN Err("UnexpectedEof")
    ELSE Ok(SubSeq(bytes, pos + 1, pos + n), pos + n)

\* ------------------------------------------------------------------ u32
MkU32(hi, lo) == [hi |-> hi, lo |-> lo]
U32Zero == MkU32(0, 0)

\* a usize below 2^31 as u32 and back
ToU32(n) == MkU32(n \div U16, n % U16)
FitsInt(u) == u.hi < 32768
ToInt(u) == u.hi * U16 + u.lo

\* ((v as u32) << s) for a 7-bit v and 0 <= s < 32: the bits shifted out of
\* the 32 are dropped without any check
Shl7(v, s) ==
    IF s < 16
    THEN LET x == v * Pow2(s) IN MkU32(x \div U16, x % U16)
    ELSE MkU32((v * Pow2(s - 16)) % U16, 0)

\* a + b on u32: the wrapped sum and whether it overflowed
AddU32(a, b) ==
    LET lo == a.lo + b.lo
        hi == a.hi + b.hi + (lo \div U16)
    IN [sum |-> MkU32(hi % U16, lo % U16), over |-> hi >= U16]

\* ------------------------------------------------------------------ varuint
RECURSIVE ReadVarLengthLoop(_, _, _, _, _)
ReadVarLengthLoop(bytes, pos, result, count, b) ==
    LET rd == ReadExact(bytes, pos, 1)
    IN IF ~IsOk(rd) THEN rd
       ELSE LET byte == rd.val[1]
                shift == count * 7
            IN IF shift >= 32 /\ b = "debug"
               THEN Panicked("attempt to shift left with overflow")
               ELSE LET add == AddU32(result, Shl7(byte % Cont, shift % 32))
                    IN IF add.over /\ b = "debug"
                       THEN Panicked("attempt to add with overflow")
                       ELSE IF byte \div Cont = 0
                            THEN Ok(add.sum, rd.pos)
                            ELSE ReadVarLengthLoop(bytes, rd.pos, add.sum,
                                                   count + 1, b)

ReadVarLength(bytes, pos, b) == ReadVarLengthLoop(bytes, pos, U32Zero, 0, b)

\* n >>= 7 on the limbs
Shr7(n) == MkU32(n.hi \div Cont, (n.lo \div Cont) + (n.hi % Cont) * (U16 \div Cont))

\* the loop condition with its limit off by one
WriteVarLengthCondLate(n) == n.hi > 0 \/ n.lo > 128

\* while n > 0x7F
WriteVarLengthCond(n) == n.hi > 0 \/ n.lo > 127

RECURSIVE WriteVarLength(_)
WriteVarLength(n) ==
    IF WriteVarLengthCond(n)
    THEN <<(n.lo % Cont) + Cont>> \o WriteVarLength(Shr7(n))
    ELSE <<n.lo>>

\* ------------------------------------------------------------------ UTF-8
\* the UTF-8 bytes of one code point (str::as_bytes)
Utf8Char(c) ==
    IF c < 128 THEN <<c>>
    ELSE IF c < 2048 THEN <<192 + (c \div 64), 128 + (c % 64)>>
    ELSE IF c < 65536
         THEN <<224 + (c \div 4096), 128 + ((c \div 64) % 64), 128 + (c % 64)>>
    ELSE <<240 + (c \div 262144), 128 + ((c \div 4096) % 64),
           128 + ((c \div 64) % 64), 128 + (c % 64)>>

Utf8(s) == ConcatMap(LAMBDA i : Utf8Char(s[i]), 1, Len(s))

\* one byte of String::from_utf8's validation: need counts the continuation
\* bytes still owed, lo..hi is the range allowed to the next of them
Utf8Step(st, byte) ==
    LET bad == [st EXCEPT !.stop = TRUE]
    IN IF st.need = 0
       THEN IF byte < 128 THEN [st EXCEPT !.acc = Append(@, byte)]
            ELSE IF byte >= 194 /\ byte <= 223
            THEN [st EXCEPT !.need = 1, !.cp = byte - 192, !.lo = 128, !.hi = 191]
            ELSE IF byte >= 224 /\ byte <= 239
            THEN [st EXCEPT !.need = 2, !.cp = byte - 224,
                            !.lo = IF byte = 224 THEN 160 ELSE 128,
                            !.hi = IF byte = 237 THEN 159 ELSE 191]
            ELSE IF byte >= 240 /\ byte <= 244
            THEN [st EXCEPT !.need = 3, !.cp = byte - 240,
                            !.lo = IF byte = 240 THEN 144 ELSE 128,
                            !.hi = IF byte = 244 THEN 143 ELSE 191]
            ELSE bad
       ELSE IF byte < st.lo \/ byte > st.hi THEN bad
       ELSE LET cp == st.cp * 64 + (byte - 128)
            IN IF st.need = 1
               THEN [st EXCEPT !.need = 0, !.cp = 0, !.acc = Append(@, cp)]
               ELSE [st EXCEPT !.need = @ - 1, !.cp = cp, !.lo = 128, !.hi = 191]

\* String::from_utf8: the code points, or an error on any ill-formed sequence
FromUtf8(bytes) ==
    LET end == Iterate(LAMBDA st, i : Utf8Step(st, bytes[i]),
                       [stop |-> FALSE, need |-> 0, cp |-> 0, lo |-> 128,
                        hi |-> 191, acc |-> <<>>],
                       1, Len(bytes))
    IN [ok |-> ~end.stop /\ end.need = 0, s |-> end.acc]

\* ------------------------------------------------------------------ strings
\* read_string; a length of 2^31 or more cannot be met by any stream here
ReadString(bytes, pos, b) ==
    LET length == ReadVarLength(bytes, pos, b)
    IN IF ~IsOk(length) THEN length
       ELSE IF ~FitsInt(length.val) THEN Err("UnexpectedEof")
       ELSE LET rd == ReadExact(bytes, length.pos, ToInt(length.val))
            IN IF ~IsOk(rd) THEN rd
               ELSE LET u == FromUtf8(rd.val)
                    IN IF u.ok THEN Ok(u.s, rd.pos) ELSE Err("InvalidData")

WriteString(s) ==
    LET raw == Utf8(s) IN WriteVarLength(ToU32(Len(raw))) \o raw

\* ------------------------------------------------------------------ run length
\* character.to_string().repeat(times): the character is the byte as a code point
Repeat(c, times) == [i \in 1..times |-> c]

\* one iteration of the loop of read_run_length_encoded, at i = 0, 2, 4, ...;
\* data[i + 1] is a checked index
RunLengthExpandStep(data, st, i) ==
    IF i + 1 >= Len(data) THEN [st EXCEPT !.stop = TRUE]
    ELSE [st EXCEPT !.s = @ \o Repeat(data[i + 2], data[i + 1])]

\* for i in (0..byte_count).step_by(2)
RunLengthExpand(data) ==
    Iterate(LAMBDA st, k : RunLengthExpandStep(data, st, 2 * k),
            [stop |-> FALSE, s |-> <<>>], 0, ((Len(data) + 1) \div 2) - 1)

ReadRunLengthEncoded(bytes, pos) ==
    LET hd == ReadExact(bytes, pos, 2)
    IN IF ~IsOk(hd) THEN hd
       ELSE LET byte_count == FromLE16(hd.val[1], hd.val[2])
                rd == ReadExact(bytes, hd.pos, byte_count)
            IN IF ~IsOk(rd) THEN rd
               ELSE LET x == RunLengthExpand(rd.val)
                    IN IF x.stop THEN Panicked("index out of bounds")
                       ELSE Ok(x.s, rd.pos)

\* one iteration of the scan of encode_run_length over bytes[1..]
RunLengthStep(st, byte) ==
    IF byte # st.current \/ st.count = 255
    THEN [st EXCEPT !.count = 1, !.current = byte,
                    !.result = @ \o <<st.count, st.current>>]
    ELSE [st EXCEPT !.count = @ + 1]

RunLengthScan(bytes) ==
    LET end == Iterate(LAMBDA st, i : RunLengthStep(st, bytes[i]),
                       [stop |-> FALSE, count |-> 1, current |-> bytes[1],
                        result |-> <<>>],
                       2, Len(bytes))
    IN end.result \o <<end.count, end.current>>

\* the guard of encode_run_length: some character above 0xFF
HasWideChar(s) == \E i \in 1..Len(s) : s[i] > 255

EncodeRunLength(s) ==
    IF HasWideChar(s) THEN [some |-> FALSE, bytes |-> <<>>]
    ELSE LET bytes == Utf8(s)
         IN IF bytes = <<>> THEN [some |-> TRUE, bytes |-> <<>>]
            ELSE [some |-> TRUE,
                  bytes |-> RunLengthScan(bytes)]

\* ------------------------------------------------------------------ values
(***************************************************************************)
(* serde_json::Value as the codec sees it, [t, b, n, s]:                   *)
(*   t = "bool"   Bool b                                                   *)
(*   t = "num"    a Number that is the integer n of the i32 range          *)
(*   t = "real"   any other Number: b says whether it lies in the f32      *)
(*                range, s holds the little-endian bytes of its f32 image  *)
(*   t = "str"    String s                                                 *)
(*   t = "null"   Null                                                     *)
(*   t = "array"  Array or Object                                          *)
(***************************************************************************)
Val(t, b, n, s) == [t |-> t, b |-> b, n |-> n, s |-> s]
VBool(b) == Val("bool", b, 0, <<>>)
VNum(n) == Val("num", FALSE, n, <<>>)
VReal(fits, le) == Val("real", fits, 0, le)
VStr(s) == Val("str", FALSE, 0, s)
VNull == Val("null", FALSE, 0, <<>>)
VArray == Val("array", FALSE, 0, <<>>)

\* HashMap::get on the inverse of the lookup vector (map.rs: enumerate):
\* the 0-based index of s
LookupHas(lookup, s) == \E i \in 1..Len(lookup) : lookup[i] = s
LookupGet(lookup, s) == (CHOOSE i \in 1..Len(lookup) : lookup[i] = s) - 1

\* i16::to_le_bytes, i32::to_le_bytes (two's complement)
I16Bytes(n) == LE16(IF n < 0 THEN n + U16 ELSE n)
I32Bytes(n) ==
    LET m == IF n < 0 THEN (n + 2147483647) + 1 ELSE n
        top == (m \div 16777216) + (IF n < 0 THEN 128 ELSE 0)
    IN <<m % U8, (m \div U8) % U8, (m \div U16) % U8, top>>

\* i16::from_le_bytes, i32::from_le_bytes
I16From(b) == LET u == FromLE16(b[1], b[2]) IN IF u >= 32768 THEN u - U16 ELSE u
I32From(b) ==
    LET m == b[1] + b[2] * U8 + b[3] * U16 + (b[4] % 128) * 16777216
    IN IF b[4] >= 128 THEN (m - 2147483647) - 1 ELSE m

\* f32::is_finite on the little-endian bytes: the exponent is not all ones
F32Finite(b) == (b[4] % 128) * 2 + (b[3] \div 128) # 255

Wrote(bytes) == [ok |-> TRUE, bytes |-> bytes, err |-> ""]
Failed(bytes, e) == [ok |-> FALSE, bytes |-> bytes, err |-> e]

\* the condition with a run-length form of equal length taken too
UseRunLengthOnTie(encoded_len, len) == encoded_len <= len /\ encoded_len <= U16Max

\* the condition under which encode_value takes the run-length form
UseRunLength(encoded_len, len) == encoded_len < len /\ encoded_len <= U16Max

EncodeString(s, lookup) ==
    IF LookupHas(lookup, s)
    THEN Wrote(<<5>> \o LE16(LookupGet(lookup, s)))
    ELSE LET encoded == EncodeRunLength(s)
         IN IF encoded.some
            THEN IF UseRunLength(Len(encoded.bytes), Len(Utf8(s)))
                 THEN Wrote(<<7>> \o LE16(Len(encoded.bytes)) \o encoded.bytes)
                 ELSE Wrote(<<6>> \o WriteString(s))
            ELSE Wrote(<<6>> \o WriteString(s))

EncodeNumber(n) ==
    IF n >= 0 /\ n <= 255 THEN Wrote(<<1, n>>)
    ELSE IF n >= -32768 /\ n <= 32767 THEN Wrote(<<2>> \o I16Bytes(n))
    ELSE Wrote(<<3>> \o I32Bytes(n))

\* encode_value: the bytes written, and the error if any
EncodeValue(value, lookup) ==
    CASE value.t = "bool" -> Wrote(<<0, IF value.b THEN 1 ELSE 0>>)
      [] value.t = "num" -> EncodeNumber(value.n)
      [] value.t = "real" ->
            IF value.b THEN Wrote(<<4>> \o value.s)
            ELSE Failed(<<>>, "Number out of range")
      [] value.t = "str" -> EncodeString(value.s, lookup)
      [] OTHER -> Failed(<<>>, "Unsupported value type")

\* decode_value
DecodeValue(type_byte, lookup, bytes, pos, b) ==
    CASE type_byte = 0 ->
            LET rd == ReadExact(bytes, pos, 1)
            IN IF IsOk(rd) THEN Ok(VBool(rd.val[1] # 0), rd.pos) ELSE rd
      [] type_byte = 1 ->
            LET rd == ReadExact(bytes, pos, 1)
            IN IF IsOk(rd) THEN Ok(VNum(rd.val[1]), rd.pos) ELSE rd
      [] type_byte = 2 ->
            LET rd == ReadExact(bytes, pos, 2)
            IN IF IsOk(rd) THEN Ok(VNum(I16From(rd.val)), rd.pos) ELSE rd
      [] type_byte = 3 ->
            LET rd == ReadExact(bytes, pos, 4)
            IN IF IsOk(rd) THEN Ok(VNum(I32From(rd.val)), rd.pos) ELSE rd
      [] type_byte = 4 ->
            LET rd == ReadExact(bytes, pos, 4)
            IN IF IsOk(rd)
               THEN Ok(IF F32Finite(rd.val) THEN VReal(TRUE, rd.val) ELSE VNull, rd.pos)
               ELSE rd
      [] type_byte = 5 ->
            LET rd == ReadExact(bytes, pos, 2)
            IN IF IsOk(rd)
               THEN LET index == FromLE16(rd.val[1], rd.val[2])
                    IN IF index < Len(lookup)
                       THEN Ok(VStr(lookup[index + 1]), rd.pos)
                       ELSE Err("InvalidData")
               ELSE rd
      [] type_byte = 6 ->
            LET s == ReadString(bytes, pos, b)
            IN IF IsOk(s) THEN Ok(VStr(s.val), s.pos) ELSE s
      [] type_byte = 7 ->
            LET s == ReadRunLengthEncoded(bytes, pos)
            IN IF IsOk(s) THEN Ok(VStr(s.val), s.pos) ELSE s
      [] OTHER -> Err("InvalidData")

\* ------------------------------------------------------------------ elements
(***************************************************************************)
(* DecodedElement: [name, attrs, some, children].  attrs holds the entries *)
(* of the attribute HashMap, keys distinct, as a sequence: for a tree      *)
(* handed to the encoder, in the order in which the map that               *)
(* encode_element collects from the filter iterates (any order is          *)
(* possible; the inputs range over orders); for a decoded tree, in order   *)
(* of insertion.  children = None is some = FALSE.                         *)
(***************************************************************************)
Elem(name, attrs, some, children) ==
    [name |-> name, attrs |-> attrs, some |-> some, children |-> children]

Attr(k, v) == [k |-> k, v |-> v]

\* "CELESTE MAP"
Header == <<67, 69, 76, 69, 83, 84, 69, 32, 77, 65, 80>>
\* "package"
PackageKey == <<112, 97, 99, 107, 97, 103, 101>>

\* key.starts_with("__")
IsMeta(k) == Len(k) >= 2 /\ k[1] = 95 /\ k[2] = 95

\* HashMap::contains_key, HashMap::get and HashMap::insert on the entries
AttrHas(attrs, k) == \E i \in 1..Len(attrs) : attrs[i].k = k
AttrGet(attrs, k) == attrs[CHOOSE i \in 1..Len(attrs) : attrs[i].k = k].v
AttrInsert(attrs, k, v) ==
    IF AttrHas(attrs, k)
    THEN [attrs EXCEPT ![CHOOSE i \in 1..Len(attrs) : attrs[i].k = k].v = v]
    ELSE Append(attrs, Attr(k, v))

\* DecodedElement::collect_keys, as the set it leaves in seen
RECURSIVE CollectKeys(_)
CollectKeys(e) ==
    {e.name}
        \cup {x.k : x \in {y \in Range(e.attrs) : ~IsMeta(y.k)}}
        \cup {x.v.s : x \in {y \in Range(e.attrs) : y.v.t = "str"}}
        \cup UNION {CollectKeys(e.children[i]) : i \in 1..Len(e.children)}

\* the filter of encode_element: which attributes go on the wire
Survives(a) == ~IsMeta(a.k) /\ a.v.t # "null"

\* the attribute-count byte encode_element writes for len attributes
AttrCountByte(len) == len % U8

\* the child-count field encode_element writes for len children
ChildCountField(len) == LE16(len)

\* one iteration of the attribute loop of encode_element
EncodeAttrStep(st, a, lookup) ==
    IF ~LookupHas(lookup, a.k)
    THEN [st EXCEPT !.stop = TRUE, !.err = "Attribute name not in lookup table"]
    ELSE LET v == EncodeValue(a.v, lookup)
             out == st.bytes \o LE16(LookupGet(lookup, a.k)) \o v.bytes
         IN IF v.ok THEN [st EXCEPT !.bytes = out]
            ELSE [st EXCEPT !.stop = TRUE, !.err = v.err, !.bytes = out]

\* the ? operator: the error (or the panic) of r leaves the function, a
\* success goes on into rest
Bind(r, rest(_)) == IF IsOk(r) THEN rest(r) ELSE r

\* the bytes head written before a later write r: nothing is taken back when
\* r fails
After(head, r) == [r EXCEPT !.bytes = head \o @]

\* the attribute loop of encode_element, after the bytes head
EncodeAttrs(attributes, lookup, head) ==
    Iterate(LAMBDA st, i : EncodeAttrStep(st, attributes[i], lookup),
            [stop |-> FALSE, bytes |-> head, err |-> ""], 1, Len(attributes))

\* the outcome of the attribute loop as a write
AttrsWritten(st) == IF st.stop THEN Failed(st.bytes, st.err) ELSE Wrote(st.bytes)

\* encode_element up to the end of its attribute loop: the name index, the
\* count byte of the attributes that survive the filter, and these attributes
EncodeHead(element, lookup) ==
    IF ~LookupHas(lookup, element.name)
    THEN Failed(<<>>, "Element name not in lookup table")
    ELSE LET attributes == SelectSeq(element.attrs, Survives)
         IN AttrsWritten(EncodeAttrs(attributes, lookup,
                                     LE16(LookupGet(lookup, element.name))
                                         \o <<AttrCountByte(Len(attributes))>>))

RECURSIVE EncodeElement(_, _)
RECURSIVE EncodeChildren(_, _, _, _)

\* encode_element from the child count on, after the write hd of EncodeHead
EncodeTail(element, lookup, hd) ==
    IF ~hd.ok THEN hd
    ELSE After(hd.bytes \o ChildCountField(Len(element.children)),
               EncodeChildren(element.children, lookup, 1, Len(element.children)))

\* encode_element
EncodeElement(element, lookup) ==
    EncodeTail(element, lookup, EncodeHead(element, lookup))

\* the loop of encode_element over children[lo..hi] after the write left of
\* those before: left at the first error
EncodeRest(children, lookup, lo, hi, left) ==
    IF ~left.ok THEN left
    ELSE After(left.bytes, EncodeChildren(children, lookup, lo, hi))

\* the loop of encode_element over children[lo..hi], by halving
EncodeChildren(children, lookup, lo, hi) ==
    IF lo > hi THEN Wrote(<<>>)
    ELSE IF lo = hi THEN EncodeElement(children[lo], lookup)
    ELSE EncodeRest(children, lookup, ((lo + hi) \div 2) + 1, hi,
                    EncodeChildren(children, lookup, lo, (lo + hi) \div 2))

\* one iteration of the attribute loop of decode_element
DecodeAttrStep(st, lookup, bytes, b) ==
    LET ki == ReadExact(bytes, st.pos, 2)
    IN IF ~IsOk(ki) THEN [st EXCEPT !.stop = TRUE, !.res = ki]
       ELSE LET key_index == FromLE16(ki.val[1], ki.val[2])
            IN IF key_index >= Len(lookup)
               THEN [st EXCEPT !.stop = TRUE, !.res = Err("InvalidData")]
               ELSE LET tb == ReadExact(bytes, ki.pos, 1)
                    IN IF ~IsOk(tb) THEN [st EXCEPT !.stop = TRUE, !.res = tb]
                       ELSE LET value == DecodeValue(tb.val[1], lookup, bytes, tb.pos, b)
                            IN IF ~IsOk(value)
                               THEN [st EXCEPT !.stop = TRUE, !.res = value]
                               ELSE [st EXCEPT
                                       !.pos = value.pos,
                                       !.items = AttrInsert(@, lookup[key_index + 1],
                                                            value.val)]

\* the outcome of a reading loop: what it collected and where it ended, or
\* the error that left it
LoopResult(st) == IF st.stop THEN st.res ELSE Ok(st.items, st.pos)

\* the attribute loop of decode_element: attribute_count attributes from pos on
DecodeAttrs(bytes, pos, lookup, b, attribute_count) ==
    LoopResult(Iterate(LAMBDA st, i : DecodeAttrStep(st, lookup, bytes, b),
                       [stop |-> FALSE, res |-> NoCallResult, pos |-> pos,
                        items |-> <<>>],
                       1, attribute_count))

RECURSIVE DecodeElement(_, _, _, _)

\* the loop of decode_element over its n children from pos on, by halving:
\* the children and where they end
RECURSIVE DecodeChildren(_, _, _, _, _)
DecodeChildren(bytes, pos, lookup, b, n) ==
    IF n = 0 THEN Ok(<<>>, pos)
    ELSE IF n = 1
    THEN Bind(DecodeElement(bytes, pos, lookup, b),
              LAMBDA child : Ok(<<child.val>>, child.pos))
    ELSE Bind(DecodeChildren(bytes, pos, lookup, b, n \div 2),
              LAMBDA left :
                Bind(DecodeChildren(bytes, left.pos, lookup, b, n - (n \div 2)),
                     LAMBDA right : Ok(left.val \o right.val, right.pos)))

\* decode_element
DecodeElement(bytes, pos, lookup, b) ==
    Bind(ReadExact(bytes, pos, 2), LAMBDA ni :
      IF FromLE16(ni.val[1], ni.val[2]) >= Len(lookup) THEN Err("InvalidData")
      ELSE Bind(ReadExact(bytes, ni.pos, 1), LAMBDA ac :
        Bind(DecodeAttrs(bytes, ac.pos, lookup, b, ac.val[1]), LAMBDA attrs :
          Bind(ReadExact(bytes, attrs.pos, 2), LAMBDA cc :
            Bind(DecodeChildren(bytes, cc.pos, lookup, b,
                                FromLE16(cc.val[1], cc.val[2])),
                 LAMBDA children :
                   Ok(Elem(lookup[FromLE16(ni.val[1], ni.val[2]) + 1], attrs.val,
                           FromLE16(cc.val[1], cc.val[2]) > 0, children.val),
                      children.pos))))))

\* ------------------------------------------------------------------ documents
\* the table-length field encode_map writes for a table of len strings
TableLenField(len) == LE16(len)

\* encode_map with the vector lookup that seen.into_iter().collect() gave
EncodeMap(map, lookup) ==
    IF ~(AttrHas(map.attrs, PackageKey) /\ AttrGet(map.attrs, PackageKey).t = "str")
    THEN Failed(<<>>, "Missing package attribute")
    ELSE After(WriteString(Header)
                   \o WriteString(AttrGet(map.attrs, PackageKey).s)
                   \o TableLenField(Len(lookup))
                   \o ConcatMap(LAMBDA i : WriteString(lookup[i]), 1, Len(lookup)),
               EncodeElement(map, lookup))

\* one iteration of the loop of decode_map over the lookup table
DecodeTableStep(st, bytes, b) ==
    LET s == ReadString(bytes, st.pos, b)
    IN IF ~IsOk(s) THEN [st EXCEPT !.stop = TRUE, !.res = s]
       ELSE [st EXCEPT !.pos = s.pos, !.items = Append(@, s.val)]

\* the loop of decode_map over the lookup table: lookup_length strings
DecodeLookup(bytes, pos, b, lookup_length) ==
    LoopResult(Iterate(LAMBDA st, i : DecodeTableStep(st, bytes, b),
                       [stop |-> FALSE, res |-> NoCallResult, pos |-> pos,
                        items |-> <<>>],
                       1, lookup_length))

\* the header, the package and the lookup table of decode_map: the package
\* and the table, and where the root element starts
DecodeTable(bytes, b) ==
    Bind(ReadString(bytes, 0, b), LAMBDA header :
      IF header.val # Header THEN Err("InvalidData")
      ELSE Bind(ReadString(bytes, header.pos, b), LAMBDA package :
        Bind(ReadExact(bytes, package.pos, 2), LAMBDA ll :
          Bind(DecodeLookup(bytes, ll.pos, b, FromLE16(ll.val[1], ll.val[2])),
               LAMBDA tbl :
                 Ok([package |-> package.val, lookup |-> tbl.val], tbl.pos)))))

\* decode_map
DecodeMap(bytes, b) ==
    Bind(DecodeTable(bytes, b), LAMBDA hd :
      Bind(DecodeElement(bytes, hd.pos, hd.val.lookup, b), LAMBDA map :
        Ok([map.val EXCEPT
              !.attrs = AttrInsert(@, PackageKey, VStr(hd.val.package))],
           map.pos)))

\* ------------------------------------------------------------------ hash order
(***************************************************************************)
(* The order in which a HashSet hands out its strings depends on the       *)
(* hasher's random state and is any order.  SortSet orders a set by a hash *)
(* of the string mixed with a seed.                                        *)
(***************************************************************************)
RECURSIVE StrLess(_, _, _)
StrLess(a, b, i) ==
    IF i > Len(b) THEN FALSE
    ELSE IF i > Len(a) THEN TRUE
    ELSE IF a[i] # b[i] THEN a[i] < b[i]
    ELSE StrLess(a, b, i + 1)

RECURSIVE Mix(_, _, _, _)
Mix(s, seed, i, h) ==
    IF i > Len(s) THEN h
    ELSE Mix(s, seed, i + 1, (((h * 31 + s[i] + seed) % 65521) * 7919) % 65521)

\* a string with its hash under one state of the hasher
Hashed(s, seed) == [s |-> s, h |-> Mix(s, seed, 1, 0)]

HashLess(a, b) == a.h < b.h \/ (a.h = b.h /\ StrLess(a.s, b.s, 1))

\* the strings of the hashed set H in the order of their hashes
RECURSIVE SortHashed(_)
SortHashed(H) ==
    IF H = {} THEN <<>>
    ELSE LET x == CHOOSE y \in H : TRUE
         IN SortHashed({y \in H : HashLess(y, x)})
                \o <<x.s>>
                \o SortHashed({y \in H : HashLess(x, y)})

SortSet(S, seed) == SortHashed({Hashed(s, seed) : s \in S})

RECURSIVE Perms(_)
Perms(S) ==
    IF S = {} THEN {<<>>}
    ELSE UNION {{<<x>> \o p : p \in Perms(S \ {x})} : x \in S}

\* sets of at most PermLimit strings are handed out in every order
PermLimit == 4
\* the number of hasher states tried on a larger set
HashSeeds == 2

HashOrders(S) ==
    IF Cardinality(S) <= PermLimit THEN Perms(S)
    ELSE {SortSet(S, seed) : seed \in 0..(HashSeeds - 1)}

\* ------------------------------------------------------------------ inputs
\* longest string of the run-length and value inputs, apart from LongRuns
MaxStrLen == 3
\* longest adversarial stream handed to read_var_length
MaxRawLen == 6
\* longest adversarial stream handed to read_run_length_encoded
MaxRleLen == 5

SeqsUpTo(S, n) == UNION {[1..k -> S] : k \in 0..n}

\* 'a', 'b', U+0080, U+00E9, U+00FF and a character above 0xFF
StrChars == {97, 98, 128, 233, 255, 300}

\* runs around the cap of 255 of a run's count byte
LongRuns ==
    {Repeat(97, n) : n \in {254, 255, 256, 257, 510, 511}}
        \cup {Repeat(97, 255) \o <<98>>, Repeat(97, 256) \o <<98, 98>>}

Strings == SeqsUpTo(StrChars, MaxStrLen) \cup LongRuns

\* limbs around every boundary of a 7-bit group
Limbs == {0, 1, 2, 3, 4, 15, 16, 63, 64, 127, 128, 129, 255, 256, 511, 512,
          4095, 4096, 16383, 16384, 32767, 32768, 65534, 65535}

U32s == {MkU32(hi, lo) : hi \in Limbs, lo \in Limbs}

RawVarBytes == {1, 127, 128, 255}
RawVarStreams == SeqsUpTo(RawVarBytes, MaxRawLen)

RawRleBytes == {0, 1, 2, 3, 97}
RawRleStreams == SeqsUpTo(RawRleBytes, MaxRleLen)

Lookups ==
    {<<>>, <<<<97, 97, 97>>>>, <<<<98>>, <<97, 97, 97>>, <<>>>>,
     <<<<97, 98>>, Repeat(97, 256), <<300>>, <<233>>>>}

\* lengths around the widest run-length form that encode_value frames
GuardLens == {0, 1, 2, U16Max - 1, U16Max, U16Max + 1, U16Max + 2}

Values ==
    {VStr(s) : s \in Strings}
        \cup {VBool(TRUE), VBool(FALSE), VNull, VArray,
              VReal(TRUE, <<0, 0, 192, 63>>), VReal(FALSE, <<0, 0, 128, 127>>)}
        \cup {VNum(n) : n \in {0, 1, 255, 256, -1, 32767, 32768, -32768, -32769,
                               2147483647, -2147483647 - 1}}

\* the arguments of one call: the function, and of n, s, value, lookup, tree
\* those it takes
Arg(fn, n, s, value, lookup, tree) ==
    [fn |-> fn, n |-> n, s |-> s, value |-> value, lookup |-> lookup, tree |-> tree]

NoTree == Elem(<<>>, <<>>, FALSE, <<>>)

PrimArgs ==
    {Arg("varuint", n, <<>>, VNull, <<>>, NoTree) : n \in U32s}
        \cup {Arg("rawvar", U32Zero, s, VNull, <<>>, NoTree) : s \in RawVarStreams}
        \cup {Arg("rle", U32Zero, s, VNull, <<>>, NoTree) : s \in Strings}
        \cup {Arg("rawrle", U32Zero, s, VNull, <<>>, NoTree) : s \in RawRleStreams}
        \cup {Arg("value", U32Zero, <<>>, v, l, NoTree) : v \in Values, l \in Lookups}
        \cup {Arg("guard", U32Zero, <<e, l>>, VNull, <<>>, NoTree) :
                  e \in GuardLens, l \in GuardLens}

NoCall == NoCallResult

\* ------------------------------------------------------------------ primitive and value codec
Init ==
    /\ pc = "start"
    /\ arg \in PrimArgs
    /\ build \in Builds
    /\ enc = NoCall
    /\ stream = <<>>
    /\ dec = NoCall

\* a stream that does not come from the encoder is handed to a reader
FeedStream ==
    /\ pc = "start"
    /\ arg.fn \in {"rawvar", "rawrle"}
    /\ stream' = arg.s
    /\ pc' = "written"
    /\ UNCHANGED <<arg, build, enc, dec>>

CallWriteVarLength ==
    /\ pc = "start"
    /\ arg.fn = "varuint"
    /\ stream' = WriteVarLength(arg.n)
    /\ enc' = Wrote(stream')
    /\ pc' = "written"
    /\ UNCHANGED <<arg, build, dec>>

CallReadVarLength ==
    /\ pc = "written"
    /\ arg.fn \in {"varuint", "rawvar"}
    /\ dec' = ReadVarLength(stream, 0, build)
    /\ pc' = "read"
    /\ UNCHANGED <<arg, build, enc, stream>>

\* encode_run_length, and its output framed by its 16-bit length as
\* encode_value frames it
CallEncodeRunLength ==
    /\ pc = "start"
    /\ arg.fn = "rle"
    /\ enc' = EncodeRunLength(arg.s)
    /\ stream' = IF enc'.some THEN LE16(Len(enc'.bytes)) \o enc'.bytes ELSE <<>>
    /\ pc' = "written"
    /\ UNCHANGED <<arg, build, dec>>

CallReadRunLengthEncoded ==
    /\ pc = "written"
    /\ arg.fn \in {"rle", "rawrle"}
    /\ arg.fn = "rle" => enc.some
    /\ dec' = ReadRunLengthEncoded(stream, 0)
    /\ pc' = "read"
    /\ UNCHANGED <<arg, build, enc, stream>>

CallEncodeValue ==
    /\ pc = "start"
    /\ arg.fn = "value"
    /\ enc' = EncodeValue(arg.value, arg.lookup)
    /\ stream' = enc'.bytes
    /\ pc' = "written"
    /\ UNCHANGED <<arg, build, dec>>

\* the guard of the run-length form in encode_value, on the lengths
\* <<encoded_len, s.len()>>
CallUseRunLength ==
    /\ pc = "start"
    /\ arg.fn = "guard"
    /\ enc' = [some |-> UseRunLength(arg.s[1], arg.s[2]), bytes |-> <<>>]
    /\ pc' = "written"
    /\ UNCHANGED <<arg, build, stream, dec>>

\* the type byte is read by decode_element, the payload by decode_value
CallDecodeValue ==
    /\ pc = "written"
    /\ arg.fn = "value"
    /\ enc.ok
    /\ dec' = DecodeValue(stream[1], arg.lookup, stream, 1, build)
    /\ pc' = "read"
    /\ UNCHANGED <<arg, build, enc, stream>>

Next ==
    \/ FeedStream
    \/ CallWriteVarLength
    \/ CallReadVarLength
    \/ CallEncodeRunLength
    \/ CallReadRunLengthEncoded
    \/ CallEncodeValue
    \/ CallUseRunLength
    \/ CallDecodeValue

Spec == Init /\ [][Next]_vars

\* ------------------------------------------------------------------ trees
\* most children of one element of the small trees
MaxKids == 2

NameM == <<77>>
NameB == <<98>>
KeyW == <<119>>
KeyH == <<104>>
KeyMeta == <<95, 95, 120>>
StrP == <<80>>
StrQ == <<81>>

Package == Attr(PackageKey, VStr(StrP))

\* the root's attributes, in the order they are written
RootAttrs ==
    {<<Package>>,
     <<Package, Attr(KeyW, VNum(5))>>,
     <<Attr(KeyW, VNum(320)), Package>>,
     <<Package, Attr(KeyW, VNum(-3))>>,
     <<Package, Attr(KeyW, VNum(70000))>>,
     <<Package, Attr(KeyW, VNum(-2147483647 - 1))>>,
     <<Package, Attr(KeyW, VBool(TRUE))>>,
     <<Package, Attr(KeyW, VStr(StrQ))>>,
     <<Attr(KeyW, VStr(NameM)), Package>>,
     <<Package, Attr(KeyW, VStr(KeyW))>>,
     <<Package, Attr(KeyMeta, VNum(1))>>,
     <<Attr(KeyMeta, VStr(StrQ)), Package>>,
     <<Package, Attr(KeyW, VNull)>>,
     <<Package, Attr(KeyW, VArray)>>,
     <<Package, Attr(KeyW, VReal(FALSE, <<0, 0, 128, 127>>))>>,
     <<Package, Attr(KeyW, VReal(TRUE, <<0, 0, 192, 63>>))>>,
     <<Attr(KeyW, VNum(5))>>,
     <<Attr(PackageKey, VNum(5))>>,
     <<Package, Attr(KeyW, VNum(1)), Attr(KeyH, VNum(2))>>,
     <<Attr(KeyH, VBool(FALSE)), Package, Attr(KeyW, VNum(1))>>}

Leaf(name) == Elem(name, <<>>, FALSE, <<>>)

Kid(i) ==
    IF i = 1 THEN Elem(NameB, <<Attr(KeyH, VStr(StrQ))>>, FALSE, <<>>)
    ELSE IF i % 2 = 0 THEN Elem(NameB, <<>>, TRUE, <<>>)
    ELSE Elem(NameM, <<Attr(KeyMeta, VNull)>>, TRUE, <<Leaf(NameB)>>)

\* None, Some of 0..MaxKids children, and a grandchild
KidLists ==
    {[some |-> FALSE, items |-> <<>>]}
        \cup {[some |-> TRUE, items |-> [i \in 1..k |-> Kid(i)]] : k \in 0..MaxKids}
        \cup {[some |-> TRUE, items |-> <<Kid(3)>>]}

SmallTrees == {Elem(NameM, a, c.some, c.items) : a \in RootAttrs, c \in KidLists}

\* a root with n attributes on the wire: "package" and n - 1 Bool attributes
\* with distinct one-character keys, written in the order of their keys' hash
WideKeys(n) == {<<256 + i>> : i \in 1..(n - 1)} \cup {PackageKey}

WideTree(n) ==
    LET order == SortSet(WideKeys(n), 0)
    IN Elem(NameM,
            [i \in 1..n |-> IF order[i] = PackageKey THEN Package
                            ELSE Attr(order[i], VBool(FALSE))],
            FALSE, <<>>)

\* n metadata attributes with n distinct string values
ManyKey(i) == <<95, 95, 300 + (i \div U8), 300 + (i % U8)>>
ManyStr(i) == <<300 + (i \div U8), 300 + (i % U8)>>
ManyAttrs(n) == [i \in 1..n |-> Attr(ManyKey(i), VStr(ManyStr(i)))]

MapArg(tree) == Arg("map", U32Zero, <<>>, VNull, <<>>, tree)

\* ------------------------------------------------------------------ document codec
InitMap ==
    /\ pc = "start"
    /\ arg \in {MapArg(tr) : tr \in SmallTrees \cup {WideTree(255), WideTree(256)}}
    /\ build \in Builds
    /\ enc = NoCall
    /\ stream = <<>>
    /\ dec = NoCall

\* encode_map; File::create has emptied the file before any check
CallEncodeMap ==
    /\ pc = "start"
    /\ arg.fn = "map"
    /\ \E lookup \in HashOrders(CollectKeys(arg.tree)) :
          enc' = EncodeMap(arg.tree, lookup)
    /\ stream' = enc'.bytes
    /\ pc' = "written"
    /\ UNCHANGED <<arg, build, dec>>

\* longest file that is cut at every byte
MaxShort == 64
\* most bytes a longer file loses at its end
MaxCut == 4

\* the file loses its last bytes, at least one
Truncate ==
    /\ pc = "written"
    /\ arg.fn = "map"
    /\ enc.ok
    /\ \E k \in 0..(Len(stream) - 1) :
          /\ Len(stream) <= MaxShort \/ k >= Len(stream) - MaxCut
          /\ stream' = SubSeq(stream, 1, k)
    /\ pc' = "cut"
    /\ UNCHANGED <<arg, build, enc, dec>>

CallDecodeMap ==
    /\ pc \in {"written", "cut"}
    /\ arg.fn = "map"
    /\ enc.ok
    /\ dec' = DecodeMap(stream, build)
    /\ pc' = "read"
    /\ UNCHANGED <<arg, build, enc, stream>>

NextMap ==
    \/ CallEncodeMap
    \/ Truncate
    \/ CallDecodeMap

SpecMap == InitMap /\ [][NextMap]_vars

\* ------------------------------------------------------------------ large tables
(***************************************************************************)
(* A tree of tens of thousands of strings is held as arg.tree and the      *)
(* number arg.n of further attributes ManyAttrs gives its root, and of the *)
(* file written for it the bytes up to the table-length field are kept.    *)
(***************************************************************************)
\* most further attributes of the trees that fit the table
MaxExtra == 60

TableArg(n) ==
    Arg("table", ToU32(n), <<>>, VNull, <<>>, Elem(NameM, <<Package>>, FALSE, <<>>))

\* the tree that a holds
TreeOf(a) == [a.tree EXCEPT !.attrs = @ \o ManyAttrs(ToInt(a.n))]

\* the number of bytes of a document up to the end of its table-length field
HeadLen(map) ==
    Len(WriteString(Header)) + Len(WriteString(AttrGet(map.attrs, PackageKey).s)) + 2

\* the outcome r of encode_map with the file cut behind the table-length field
UpToTable(map, r) == [r EXCEPT !.bytes = SubSeq(@, 1, Min(HeadLen(map), Len(@)))]

InitTable ==
    /\ pc = "start"
    /\ arg \in {TableArg(n) : n \in (0..MaxExtra) \cup {U16Max - 1}}
    /\ build \in Builds
    /\ enc = NoCall
    /\ stream = <<>>
    /\ dec = NoCall

\* encode_map on the tree that arg holds
CallEncodeMapLarge ==
    /\ pc = "start"
    /\ arg.fn = "table"
    /\ \E lookup \in HashOrders(CollectKeys(TreeOf(arg))) :
          enc' = UpToTable(TreeOf(arg), EncodeMap(TreeOf(arg), lookup))
    /\ stream' = enc'.bytes
    /\ pc' = "written"
    /\ UNCHANGED <<arg, build, dec>>

NextTable == CallEncodeMapLarge

SpecTable == InitTable /\ [][NextTable]_vars

\* ------------------------------------------------------------------ properties
\* C7: for every n in [0, 2^32), read_var_length on the bytes written by
\* write_var_length(n) returns n and consumes exactly those bytes
VarLengthRoundTrip ==
    (pc = "read" /\ arg.fn = "varuint") =>
        /\ stream = WriteVarLength(arg.n)
        /\ IsOk(dec)
        /\ dec.val = arg.n
        /\ dec.pos = Len(stream)

\* a number of 29 bits or more has come back from its five bytes
VarLengthRoundTripWitness ==
    /\ pc = "read"
    /\ arg.fn = "varuint"
    /\ arg.n.hi >= 4096
    /\ Len(stream) = 5
    /\ IsOk(dec)
    /\ dec.val = arg.n

\* the run-length form of s is there, shorter than the UTF-8 bytes of s and
\* of at most 65535 bytes
RunLengthPays(s) ==
    /\ EncodeRunLength(s).some
    /\ Len(EncodeRunLength(s).bytes) < Len(Utf8(s))
    /\ Len(EncodeRunLength(s).bytes) <= 65535

\* C8: encode_value writes a string of the lookup table as tag 5 with its
\* table index, whatever its run-length form; a string outside the table as
\* tag 7 with its run-length form exactly when that form is there, strictly
\* shorter than the UTF-8 bytes and of at most 65535 bytes; and as tag 6 with
\* its length-prefixed bytes in every other case.  Its guard takes the
\* run-length form exactly for a length below the string's that is at most
\* 65535
StringTagSelection ==
    /\ (pc # "start" /\ arg.fn = "guard") =>
          (enc.some <=> arg.s[1] < arg.s[2] /\ arg.s[1] <= 65535)
    /\ (pc # "start" /\ arg.fn = "value" /\ arg.value.t = "str") =>
        /\ enc.ok
        /\ stream[1] \in {5, 6, 7}
        /\ arg.value.s \in Range(arg.lookup) <=> stream[1] = 5
        /\ stream[1] = 5 =>
              /\ Len(stream) = 3
              /\ FromLE16(stream[2], stream[3]) < Len(arg.lookup)
              /\ arg.lookup[FromLE16(stream[2], stream[3]) + 1] = arg.value.s
        /\ stream[1] = 7 =>
              /\ RunLengthPays(arg.value.s)
              /\ stream = <<7>> \o LE16(Len(EncodeRunLength(arg.value.s).bytes))
                              \o EncodeRunLength(arg.value.s).bytes
        /\ stream[1] = 6 =>
              /\ ~RunLengthPays(arg.value.s)
              /\ stream = <<6>> \o WriteString(arg.value.s)

\* a string of the table whose run-length form is the shorter one has been
\* written as tag 5
StringTagSelectionWitness ==
    /\ pc = "written"
    /\ arg.fn = "value"
    /\ arg.value.t = "str"
    /\ arg.value.s \in Range(arg.lookup)
    /\ RunLengthPays(arg.value.s)
    /\ stream[1] = 5

\* C5: when read_run_length_encoded reads an odd byte count B and B bytes
\* are there, it returns an error: no panic, no string
OddRunLengthIsError ==
    (/\ pc = "read"
     /\ arg.fn = "rawrle"
     /\ Len(stream) >= 2
     /\ FromLE16(stream[1], stream[2]) % 2 = 1
     /\ Len(stream) - 2 >= FromLE16(stream[1], stream[2]))
        => IsErr(dec)

\* C6: for every string s of characters up to U+00FF, encode_run_length(s)
\* is Some(bytes), and read_run_length_encoded on the 16-bit length of bytes
\* followed by bytes returns s
RunLengthRoundTrip ==
    (pc # "start" /\ arg.fn = "rle" /\ \A i \in 1..Len(arg.s) : arg.s[i] <= 255) =>
        /\ enc.some
        /\ pc = "read" => IsOk(dec) /\ dec.val = arg.s

\* C10: when the input of read_var_length begins with five bytes that all
\* have the continuation bit set, it returns an error: no panic, no number
OverLongVarLengthRejected ==
    (/\ pc = "read"
     /\ arg.fn = "rawvar"
     /\ Len(stream) >= 5
     /\ \A i \in 1..5 : stream[i] >= 128)
        => IsErr(dec)

\* the attributes of an element that reach the wire
Written(attrs) == SelectSeq(attrs, Survives)

\* a tree as the round trip may change it: no attribute with a "__" key or a
\* null value, no children instead of an empty list of them
RECURSIVE Normalize(_)
Normalize(e) ==
    Elem(e.name, Written(e.attrs), e.some /\ e.children # <<>>,
         [i \in 1..Len(e.children) |-> Normalize(e.children[i])])

\* equality of trees: the attributes form a map, the children a list
RECURSIVE TreeEq(_, _)
TreeEq(a, b) ==
    /\ a.name = b.name
    /\ Range(a.attrs) = Range(b.attrs)
    /\ a.some = b.some
    /\ Len(a.children) = Len(b.children)
    /\ \A i \in 1..Len(a.children) : TreeEq(a.children[i], b.children[i])

\* C1: decode_map on the whole output of encode_map returns the tree, up to
\* an empty list of children becoming none and to the attributes that are
\* never written
DocumentRoundTrip ==
    (pc = "read" /\ arg.fn = "map" /\ stream = enc.bytes) =>
        /\ IsOk(dec)
        /\ TreeEq(dec.val, Normalize(arg.tree))

\* C2: decode_map on a proper prefix of a document written by encode_map
\* returns an error: no panic, no tree
TruncationDetected ==
    (pc = "read" /\ arg.fn = "map" /\ Len(stream) < Len(enc.bytes)) => IsErr(dec)

\* C3: encode_element returns an error for an element more than 255 of whose
\* attributes survive the filter
AttributeCountChecked ==
    (pc # "start" /\ arg.fn = "map" /\ Len(Written(arg.tree.attrs)) > 255) => ~enc.ok

\* where the root element starts in a document: behind the header, the
\* package and the lookup table
RootStart(bytes, b) == DecodeTable(bytes, b).pos

\* the root element as the document holds it
WireRoot(bytes, b) ==
    DecodeElement(bytes, RootStart(bytes, b), DecodeTable(bytes, b).val.lookup, b)

\* C9: the root element of a document written by encode_map counts and
\* carries the attributes of the root that survive the filter other than
\* "package": "package" is not counted in its count byte and is no key of it
PackageExcluded ==
    (/\ pc = "written"
     /\ arg.fn = "map"
     /\ enc.ok
     /\ Len(Written(arg.tree.attrs)) <= 255)
        => /\ stream[RootStart(stream, build) + 3] = Len(Written(arg.tree.attrs)) - 1
           /\ IsOk(WireRoot(stream, build))
           /\ ~AttrHas(WireRoot(stream, build).val.attrs, PackageKey)

\* the table-length field of the document in stream
TableLenWritten == FromLE16(stream[Len(stream) - 1], stream[Len(stream)])

\* C4: encode_map fails for a tree with more than 65536 distinct strings,
\* and the table-length field it writes is the number of the tree's strings
TableSizeChecked ==
    (pc = "written" /\ arg.fn = "table") =>
        /\ Cardinality(CollectKeys(TreeOf(arg))) > 65536 => ~enc.ok
        /\ enc.ok => TableLenWritten = Cardinality(CollectKeys(TreeOf(arg)))

====
